---- MODULE Spec2Model ----
(***************************************************************************)
(* JointsGalore (server.js): the flat-file record store behind the routes. *)
(* Two collections, users.json and posts.json, are read whole, amended in  *)
(* memory and written back whole by every handler.  A handler body is      *)
(* synchronous (fs.readFileSync / fs.writeFileSync, no callback between    *)
(* them), so one handler is one action here; specification SpecRMW models  *)
(* the same cycle at the grain of the file-system calls.                   *)
(***************************************************************************)
EXTENDS Integers, Sequences, FiniteSets, TLC

VARIABLES users, posts, session, now, req, response, nreq, stack, inflight, disk

vars == <<users, posts, session, now, req, response, nreq, stack, inflight, disk>>

(* ------------------------------ bounds --------------------------------- *)
MaxTime == 2
MaxPosts == 2
MaxComments == 2
MaxUserRequests == 5
MaxPostRequests == 4
MaxAdminRequests == 4
MaxSetRequests == 4
MaxLegacyRequests == 2
MaxItems == 11
MaxStoreRequests == 3
MaxBanRequests == 3
MaxAnonRequests == 3
NumRequests == 2

(* ------------------------------ inputs --------------------------------- *)
Usernames == {"alice", "bob", "Bob"}
Passwords == {"pw"}
Guesses == Passwords \cup {"bad"}
Clients == {"c1", "c2", "c3", "c4"}
NoUser == ""

(* Requests whose callbacks are interleaved by the event loop (SpecRMW). *)
Requests == 1..NumRequests
Idle == {}
NotInFlight ==
    [r \in Requests |-> [pc |-> "none", op |-> "none", client |-> "c1", id |-> 0,
                          name |-> "", local |-> <<>>]]

(* ============================ THE DATA FILES =========================== *)
(* users.json and posts.json on disk: holding the JSON text of the
   collection ("json"), of length zero ("empty"), or not there ("missing").  The variables users and posts
   are what JSON.parse makes of a file that can be read. *)
OnDisk == [users |-> "json", posts |-> "json"]

(* ============================ JSON HELPERS ============================= *)
loadUsers == users

loadPosts == posts

HasField(r, f) == f \in DOMAIN r

SetField(r, f, v) == [x \in DOMAIN r \cup {f} |-> IF x = f THEN v ELSE r[x]]

Backfill(r, f, v) == IF HasField(r, f) THEN r ELSE SetField(r, f, v)

UserBackfilled == {"joinedAt", "isAdmin", "banned", "followers", "following"}

(* !u.joinedAt, or one of the typeof / Array.isArray tests, fires for u. *)
userNeedsFix(u) ==
    LET d == DOMAIN u IN
    IF UserBackfilled \subseteq d THEN u.joinedAt = 0 ELSE TRUE

(* Faulty variant: joinedAt is stamped whether or not the record has one. *)
normaliseUserRestamp(u, t) ==
    LET u1 == SetField(u, "joinedAt", t)
        u2 == Backfill(u1, "isAdmin", FALSE)
        u3 == Backfill(u2, "banned", FALSE)
        u4 == Backfill(u3, "followers", <<>>)
    IN  Backfill(u4, "following", <<>>)

normaliseUser(u, t) ==
    IF ~userNeedsFix(u) THEN u
    ELSE LET u1 == IF ~HasField(u, "joinedAt") \/ u.joinedAt = 0
                   THEN SetField(u, "joinedAt", t) ELSE u
             u2 == Backfill(u1, "isAdmin", FALSE)
             u3 == Backfill(u2, "banned", FALSE)
             u4 == Backfill(u3, "followers", <<>>)
         IN  Backfill(u4, "following", <<>>)

normaliseUsers(us, t) == [i \in DOMAIN us |-> normaliseUser(us[i], t)]

usersChanged(us) == \E i \in DOMAIN us : userNeedsFix(us[i])

PostBackfilled == {"likes", "likedBy", "comments"}

normalisePost(p) ==
    IF PostBackfilled \subseteq DOMAIN p THEN p
    ELSE LET p1 == Backfill(p, "likes", 0)
             p2 == Backfill(p1, "likedBy", <<>>)
         IN  Backfill(p2, "comments", <<>>)

normalisePosts(ps) == [i \in DOMAIN ps |-> normalisePost(ps[i])]

(* Array helpers of the handlers. *)
(* find / findIndex / indexOf: the first of the indices that pass the test,
   0 when none does. *)
First(indices) ==
    IF indices = {} THEN 0
    ELSE CHOOSE i \in indices : \A j \in indices : i <= j

(* Faulty variant: the membership test never finds the name. *)
IncludesNever(s, x) == FALSE

Includes(s, x) == \E i \in DOMAIN s : s[i] = x

IndexOf(s, x) == First({i \in DOMAIN s : s[i] = x})

(* Faulty variant: the element at the head is removed, whatever idx is. *)
Splice1Head(s, idx) == SubSeq(s, 2, Len(s))

Splice1(s, idx) == SubSeq(s, 1, idx - 1) \o SubSeq(s, idx + 1, Len(s))

findUser(us, name) == First({i \in DOMAIN us : us[i].username = name})

findPost(ps, id) == First({i \in DOMAIN ps : ps[i].id = id})

(* ============================= MIDDLEWARE ============================== *)
(* The users file after the current-user middleware has run for client c. *)
CurrentUser(c) ==
    IF session[c] # NoUser THEN normaliseUsers(loadUsers, now) ELSE users

(* ======================== USERS: ROUTE HANDLERS ======================== *)
Init ==
    /\ users = <<>>
    /\ posts = <<>>
    /\ session = [c \in Clients |-> NoUser]
    /\ now = 1
    /\ req = "none"
    /\ response = "none"
    /\ nreq = 0
    /\ stack = Idle
    /\ inflight = NotInFlight
    /\ disk = OnDisk

(* Date.now() advances between requests (millisecond resolution). *)
Tick ==
    /\ now < MaxTime
    /\ now' = now + 1
    /\ UNCHANGED <<users, posts, session, req, response, stack, inflight, disk>>

NewUser(username, password, isFirstUser, t) ==
    [username |-> username, email |-> "", passwordPlain |-> password,
     joinedAt |-> t, isAdmin |-> isFirstUser, banned |-> FALSE,
     followers |-> <<>>, following |-> <<>>]

(* Faulty variant: the duplicate test only looks at the newest record. *)
usernameTakenLastOnly(us, username) ==
    Len(us) > 0 /\ us[Len(us)].username = username

usernameTaken(us, username) == findUser(us, username) # 0

(* Faulty variant: an off-by-one in the first-user test. *)
isFirstUserOffByOne(us) == Len(us) <= 1

isFirstUser(us) == Len(us) = 0

Register(c, username, password, password2) ==
    /\ req' = "register"
    /\ UNCHANGED <<posts, now>>
    /\ IF username = "" \/ password = "" \/ password2 = ""
       THEN /\ response' = "400 fill in all required fields"
            /\ users' = CurrentUser(c)
            /\ UNCHANGED session
       ELSE IF password # password2
       THEN /\ response' = "400 passwords do not match"
            /\ users' = CurrentUser(c)
            /\ UNCHANGED session
       ELSE LET us == normaliseUsers(CurrentUser(c), now) IN
            IF usernameTaken(us, username)
            THEN /\ response' = "400 username already taken"
                 /\ users' = us
                 /\ UNCHANGED session
            ELSE /\ users' = Append(us, NewUser(username, password, isFirstUser(us), now))
                 /\ session' = [session EXCEPT ![c] = username]
                 /\ response' = "302 /"

(* Faulty variant: the ban is tested on the username alone, before the credential. *)
authenticateBanFirst(us, username, password) ==
    LET i == First({k \in DOMAIN us :
                       us[k].username = username /\ us[k].passwordPlain = password})
        n == findUser(us, username)
    IN  IF n # 0 /\ us[n].banned THEN "403 banned"
        ELSE IF i = 0 THEN "401 invalid username or password"
        ELSE "302 /"

(* The answer of POST /login for the loaded users. *)
authenticate(us, username, password) ==
    LET i == First({k \in DOMAIN us :
                       us[k].username = username /\ us[k].passwordPlain = password})
    IN  IF i = 0 THEN "401 invalid username or password"
        ELSE IF us[i].banned THEN "403 banned"
        ELSE "302 /"

Login(c, username, password) ==
    LET us == normaliseUsers(CurrentUser(c), now)
        i  == First({k \in DOMAIN us :
                       us[k].username = username /\ us[k].passwordPlain = password})
    IN  /\ req' = "login"
        /\ users' = us
        /\ UNCHANGED <<posts, now>>
        /\ response' = authenticate(us, username, password)
        /\ IF authenticate(us, username, password) = "302 /"
           THEN session' = [session EXCEPT ![c] = us[i].username]
           ELSE UNCHANGED session

Logout(c) ==
    /\ req' = "logout"
    /\ users' = CurrentUser(c)
    /\ session' = [session EXCEPT ![c] = NoUser]
    /\ response' = "302 /"
    /\ UNCHANGED <<posts, now>>

addFollowing(us, me, targetName) ==
    IF ~Includes(us[me].following, targetName)
    THEN [us EXCEPT ![me].following = Append(@, targetName)]
    ELSE us

(* Faulty variant: the target's followers are left as they were. *)
addFollowerForgotten(us, target, meName) == us

addFollower(us, target, meName) ==
    IF ~Includes(us[target].followers, meName)
    THEN [us EXCEPT ![target].followers = Append(@, meName)]
    ELSE us

Follow(c, targetName) ==
    LET meName == session[c] IN
    /\ req' = "follow"
    /\ UNCHANGED <<posts, session, now>>
    /\ IF meName = NoUser
       THEN /\ response' = "302 /login"
            /\ UNCHANGED users
       ELSE IF targetName = meName
       THEN /\ response' = "302 /user"
            /\ users' = CurrentUser(c)
       ELSE LET us     == normaliseUsers(CurrentUser(c), now)
                me     == findUser(us, meName)
                target == findUser(us, targetName)
            IN  IF me = 0 \/ target = 0
                THEN /\ response' = "302 /"
                     /\ users' = us
                ELSE /\ users' = addFollower(addFollowing(us, me, targetName),
                                              target, meName)
                     /\ response' = "302 /user"

removeFollowing(us, me, targetName) ==
    [us EXCEPT ![me].following = SelectSeq(@, LAMBDA n : n # targetName)]

(* Faulty variant: the follower list is filtered by the wrong name. *)
removeFollowerWrongName(us, target, meName) ==
    [us EXCEPT ![target].followers = SelectSeq(@, LAMBDA n : n # us[target].username)]

removeFollower(us, target, meName) ==
    [us EXCEPT ![target].followers = SelectSeq(@, LAMBDA n : n # meName)]

Unfollow(c, targetName) ==
    LET meName == session[c] IN
    /\ req' = "unfollow"
    /\ UNCHANGED <<posts, session, now>>
    /\ IF meName = NoUser
       THEN /\ response' = "302 /login"
            /\ UNCHANGED users
       ELSE IF targetName = meName
       THEN /\ response' = "302 /user"
            /\ users' = CurrentUser(c)
       ELSE LET us     == normaliseUsers(CurrentUser(c), now)
                me     == findUser(us, meName)
                target == findUser(us, targetName)
            IN  IF me = 0 \/ target = 0
                THEN /\ response' = "302 /"
                     /\ users' = us
                ELSE /\ users' = removeFollower(removeFollowing(us, me, targetName),
                                                 target, meName)
                     /\ response' = "302 /user"

(* ======================== POSTS: ROUTE HANDLERS ======================== *)
NewPost(author, t) ==
    [id |-> t, title |-> "Untitled Joint", caption |-> "", imageFilename |-> "img",
     author |-> author, createdAt |-> t, likes |-> 0, likedBy |-> <<>>,
     comments |-> <<>>]

(* Faulty variant: the handler does not test the session. *)
UploadWithoutSession(c, hasFile) ==
    /\ req' = "upload"
    /\ users' = CurrentUser(c)
    /\ UNCHANGED <<session, now>>
    /\ IF ~hasFile
       THEN /\ response' = "400 no image uploaded"
            /\ UNCHANGED posts
       ELSE LET ps == normalisePosts(loadPosts) IN
            /\ Len(ps) < MaxPosts
            /\ posts' = Append(ps, NewPost(session[c], now))
            /\ response' = "302 /"

Upload(c, hasFile) ==
    /\ req' = "upload"
    /\ users' = CurrentUser(c)
    /\ UNCHANGED <<session, now>>
    /\ IF session[c] = NoUser
       THEN /\ response' = "401 must be logged in"
            /\ UNCHANGED posts
       ELSE IF ~hasFile
       THEN /\ response' = "400 no image uploaded"
            /\ UNCHANGED posts
       ELSE LET ps == normalisePosts(loadPosts) IN
            /\ Len(ps) < MaxPosts
            /\ posts' = Append(ps, NewPost(session[c], now))
            /\ response' = "302 /"

(* Faulty variant: the unlike branch forgets the counter. *)
toggleLikeNoDecrement(post, user) ==
    LET idx == IndexOf(post.likedBy, user) IN
    IF idx = 0
    THEN [post EXCEPT !.likedBy = Append(@, user), !.likes = @ + 1]
    ELSE [post EXCEPT !.likedBy = Splice1(@, idx)]

toggleLike(post, user) ==
    LET idx == IndexOf(post.likedBy, user) IN
    IF idx = 0
    THEN [post EXCEPT !.likedBy = Append(@, user), !.likes = @ + 1]
    ELSE [post EXCEPT !.likedBy = Splice1(@, idx),
                      !.likes = IF @ - 1 < 0 THEN 0 ELSE @ - 1]

Like(c, id) ==
    /\ req' = "like"
    /\ users' = CurrentUser(c)
    /\ UNCHANGED <<session, now>>
    /\ IF session[c] = NoUser
       THEN /\ response' = "302 /login"
            /\ UNCHANGED posts
       ELSE LET ps   == normalisePosts(loadPosts)
                post == findPost(ps, id)
            IN  IF post = 0
                THEN /\ response' = "404 post not found"
                     /\ UNCHANGED posts
                ELSE /\ response' = "302 /"
                     /\ posts' = [ps EXCEPT ![post] = toggleLike(@, session[c])]

DeletePost(c, id) ==
    /\ req' = "delete"
    /\ users' = CurrentUser(c)
    /\ UNCHANGED <<session, now>>
    /\ IF session[c] = NoUser
       THEN /\ response' = "302 /login"
            /\ UNCHANGED posts
       ELSE LET ps   == normalisePosts(loadPosts)
                post == findPost(ps, id)
            IN  IF post = 0
                THEN /\ response' = "404 post not found"
                     /\ UNCHANGED posts
                ELSE IF ps[post].author # session[c]
                THEN /\ response' = "403 only your own joints"
                     /\ UNCHANGED posts
                ELSE /\ posts' = SelectSeq(ps, LAMBDA p : p.id # id)
                     /\ response' = "302 /"

NewComment(author, text, t) ==
    [id |-> t, author |-> author, text |-> text, createdAt |-> t]

AddComment(c, id, text) ==
    /\ req' = "comment"
    /\ users' = CurrentUser(c)
    /\ UNCHANGED <<session, now>>
    /\ IF session[c] = NoUser
       THEN /\ response' = "302 /login"
            /\ UNCHANGED posts
       ELSE IF text = ""
       THEN /\ response' = "302 / (empty comment)"
            /\ UNCHANGED posts
       ELSE LET ps   == normalisePosts(loadPosts)
                post == findPost(ps, id)
            IN  IF post = 0
                THEN /\ response' = "404 post not found"
                     /\ UNCHANGED posts
                ELSE /\ Len(ps[post].comments) < MaxComments
                     /\ posts' = [ps EXCEPT ![post].comments =
                                     Append(@, NewComment(session[c], text, now))]
                     /\ response' = "302 /"

DeleteComment(c, postId, commentId) ==
    /\ req' = "deleteComment"
    /\ users' = CurrentUser(c)
    /\ UNCHANGED <<session, now>>
    /\ IF session[c] = NoUser
       THEN /\ response' = "302 /login"
            /\ UNCHANGED posts
       ELSE LET ps   == normalisePosts(loadPosts)
                post == findPost(ps, postId)
            IN  IF post = 0
                THEN /\ response' = "404 post not found"
                     /\ UNCHANGED posts
                ELSE LET idx == First({k \in DOMAIN ps[post].comments :
                                          ps[post].comments[k].id = commentId})
                     IN  IF idx = 0
                         THEN /\ response' = "404 comment not found"
                              /\ UNCHANGED posts
                         ELSE LET comment == ps[post].comments[idx]
                                  user    == session[c]
                              IN  IF comment.author # user /\ ps[post].author # user
                                  THEN /\ response' = "403 cannot delete this comment"
                                       /\ UNCHANGED posts
                                  ELSE /\ posts' = [ps EXCEPT ![post].comments =
                                                       Splice1(@, idx)]
                                       /\ response' = "302 /"

(* ============================ ADMIN PANEL ============================== *)
(* Faulty variant: any logged-in user passes. *)
requireAdminLoggedInOnly(c) ==
    IF session[c] = NoUser THEN "302 /login" ELSE "next"

(* Faulty variant: a banned admin is turned away. *)
requireAdminUnlessBanned(c) ==
    IF session[c] = NoUser THEN "302 /login"
    ELSE LET us == normaliseUsers(CurrentUser(c), now)
             i  == findUser(us, session[c])
         IN  IF i = 0 \/ ~us[i].isAdmin \/ us[i].banned THEN "403 admins only"
             ELSE "next"

(* requireAdmin: "next" when the session user is an admin, else the answer. *)
requireAdmin(c) ==
    IF session[c] = NoUser THEN "302 /login"
    ELSE LET us == normaliseUsers(CurrentUser(c), now)
             i  == findUser(us, session[c])
         IN  IF i = 0 \/ ~us[i].isAdmin THEN "403 admins only" ELSE "next"

AdminDeletePost(c, id) ==
    /\ req' = "adminDelete"
    /\ users' = CurrentUser(c)
    /\ UNCHANGED <<session, now>>
    /\ IF requireAdmin(c) # "next"
       THEN /\ response' = requireAdmin(c)
            /\ UNCHANGED posts
       ELSE /\ posts' = SelectSeq(normalisePosts(loadPosts), LAMBDA p : p.id # id)
            /\ response' = "302 /admin"

(* ban, unban and make-admin: one field of one record set to a value. *)
AdminSet(c, op, username, field, value) ==
    /\ req' = op
    /\ UNCHANGED <<posts, session, now>>
    /\ IF requireAdmin(c) # "next"
       THEN /\ response' = requireAdmin(c)
            /\ users' = CurrentUser(c)
       ELSE LET us == normaliseUsers(CurrentUser(c), now)
                i  == findUser(us, username)
            IN  /\ users' = IF i # 0 THEN [us EXCEPT ![i][field] = value] ELSE us
                /\ response' = "302 /admin"

Ban(c, username) == AdminSet(c, "ban", username, "banned", TRUE)

Unban(c, username) == AdminSet(c, "unban", username, "banned", FALSE)

MakeAdmin(c, username) == AdminSet(c, "makeAdmin", username, "isAdmin", TRUE)

(* ============================ FEED PAGES =============================== *)
POSTS_PER_PAGE == 5

(* Number.parseInt(s, 10) of a string given as its characters: an optional
   sign, then the longest run of digits; NaN when there is no digit. *)
DigitChars == <<"0", "1", "2", "3", "4", "5", "6", "7", "8", "9">>

NaN == [nan |-> TRUE, value |-> 0]

parseInt(s) ==
    LET signed == Len(s) > 0 /\ s[1] \in {"-", "+"}
        body   == IF signed THEN Tail(s) ELSE s
        stop   == First({k \in 1..(Len(body) + 1) :
                           k = Len(body) + 1 \/ IndexOf(DigitChars, body[k]) = 0})
        n      == stop - 1
        val[k \in 0..n] ==
            IF k = 0 THEN 0 ELSE val[k - 1] * 10 + (IndexOf(DigitChars, body[k]) - 1)
    IN  IF n = 0 THEN NaN
        ELSE [nan |-> FALSE, value |-> IF s[1] = "-" THEN 0 - val[n] ELSE val[n]]

(* let page = parseInt(req.query.page || '1', 10);
   if (isNaN(page) || page < 1) page = 1; *)
requestedPage(query) ==
    LET page == parseInt(IF query = <<>> THEN <<"1">> ELSE query) IN
    IF page.nan \/ page.value < 1 THEN 1 ELSE page.value

(* The comparators of posts.sort: negative when a comes first. *)
compare(a, b, view) ==
    IF view = "top" /\ b.likes # a.likes THEN b.likes - a.likes
    ELSE b.createdAt - a.createdAt

(* Array.prototype.sort, which is stable: each post in turn is put behind
   the posts already placed that compare before it or equal to it. *)
insert(placed, p, view) ==
    LET n == Cardinality({j \in DOMAIN placed : compare(placed[j], p, view) <= 0})
    IN  SubSeq(placed, 1, n) \o <<p>> \o SubSeq(placed, n + 1, Len(placed))

sort(ps, view) ==
    LET sorted[n \in 0..Len(ps)] ==
            IF n = 0 THEN <<>> ELSE insert(sorted[n - 1], ps[n], view)
    IN  sorted[Len(ps)]

(* Faulty variant: the quotient is rounded down. *)
floor(n, d) == n \div d

(* Math.ceil(n / d) for n >= 0 and d > 0. *)
ceil(n, d) == IF n % d = 0 THEN n \div d ELSE (n \div d) + 1

(* Array.prototype.slice(start, end), positions counted from 0. *)
slice(s, start, end) ==
    SubSeq(s, start + 1, IF end > Len(s) THEN Len(s) ELSE end)

(* What GET / and GET /top hand to the template. *)
render(view, sorted, query) ==
    LET totalPages == IF ceil(Len(sorted), POSTS_PER_PAGE) > 1
                      THEN ceil(Len(sorted), POSTS_PER_PAGE) ELSE 1
        page       == IF requestedPage(query) > totalPages THEN totalPages
                      ELSE requestedPage(query)
        start      == (page - 1) * POSTS_PER_PAGE
    IN  [view |-> view, posts |-> slice(sorted, start, start + POSTS_PER_PAGE),
         page |-> page, totalPages |-> totalPages]

Feed(c, query) ==
    /\ req' = "feed"
    /\ users' = CurrentUser(c)
    /\ UNCHANGED <<posts, session, now>>
    /\ response' = render("index", sort(normalisePosts(loadPosts), "index"), query)

Top(c, query) ==
    /\ req' = "top"
    /\ users' = CurrentUser(c)
    /\ UNCHANGED <<posts, session, now>>
    /\ response' = render("top", sort(normalisePosts(loadPosts), "top"), query)

(* =========================== SPECIFICATION ============================= *)
PostIds == 1..MaxTime

(* The register form: a complete one per username, and one of each way of
   filling it in wrongly. *)
RegisterForms ==
    [username : Usernames, password : Passwords, password2 : Passwords]
    \cup {[username |-> "", password |-> "pw", password2 |-> "pw"],
          [username |-> "bob", password |-> "", password2 |-> "pw"],
          [username |-> "bob", password |-> "pw", password2 |-> ""],
          [username |-> "bob", password |-> "bad", password2 |-> "pw"]}

(* One more request is served, its handler having run from its first
   statement to its last with nothing else in between (the bound is on the
   length of a history). *)
Served(bound) ==
    /\ nreq < bound
    /\ nreq' = nreq + 1
    /\ UNCHANGED <<stack, inflight, disk>>

(* A request to each route, from one of the clients Cs. *)
AnyRegister(Cs) ==
    \E c \in Cs, f \in RegisterForms : Register(c, f.username, f.password, f.password2)

AnyLogin(Cs) == \E c \in Cs, u \in Usernames, p \in Guesses : Login(c, u, p)

AnyLogout(Cs) == \E c \in Cs : Logout(c)

AnyFollow(Cs) == \E c \in Cs, u \in Usernames : Follow(c, u)

AnyUnfollow(Cs) == \E c \in Cs, u \in Usernames : Unfollow(c, u)

AnyBan(Cs) == \E c \in Cs, u \in Usernames : Ban(c, u)

AnyUnban(Cs) == \E c \in Cs, u \in Usernames : Unban(c, u)

AnyMakeAdmin(Cs) == \E c \in Cs, u \in Usernames : MakeAdmin(c, u)

AnyUpload(Cs) == \E c \in Cs, f \in BOOLEAN : Upload(c, f)

AnyLike(Cs) == \E c \in Cs, id \in PostIds : Like(c, id)

AnyDeletePost(Cs) == \E c \in Cs, id \in PostIds : DeletePost(c, id)

AnyAddComment(Cs) ==
    \E c \in Cs, id \in PostIds, text \in {"", "hi"} : AddComment(c, id, text)

AnyDeleteComment(Cs) ==
    \E c \in Cs, id \in PostIds, cid \in PostIds : DeleteComment(c, id, cid)

AnyAdminDeletePost(Cs) == \E c \in Cs, id \in PostIds : AdminDeletePost(c, id)

(* Every route, from the empty store. *)
Next ==
    \/ Tick /\ UNCHANGED nreq
    \/ AnyRegister(Clients) /\ Served(MaxUserRequests)
    \/ AnyLogin(Clients) /\ Served(MaxUserRequests)
    \/ AnyLogout(Clients) /\ Served(MaxUserRequests)
    \/ AnyFollow(Clients) /\ Served(MaxUserRequests)
    \/ AnyUnfollow(Clients) /\ Served(MaxUserRequests)
    \/ AnyBan(Clients) /\ Served(MaxUserRequests)
    \/ AnyUnban(Clients) /\ Served(MaxUserRequests)
    \/ AnyMakeAdmin(Clients) /\ Served(MaxUserRequests)
    \/ AnyUpload(Clients) /\ Served(MaxPostRequests)
    \/ AnyLike(Clients) /\ Served(MaxPostRequests)
    \/ AnyDeletePost(Clients) /\ Served(MaxPostRequests)
    \/ AnyAddComment(Clients) /\ Served(MaxPostRequests)
    \/ AnyDeleteComment(Clients) /\ Served(MaxPostRequests)
    \/ AnyAdminDeletePost(Clients) /\ Served(MaxPostRequests)

Spec == Init /\ [][Next]_vars

(* The user routes alone, from the empty store. *)
UserClients == {"c1", "c2"}

NextUsers ==
    \/ AnyRegister(UserClients) /\ Served(MaxUserRequests)
    \/ AnyLogin(UserClients) /\ Served(MaxUserRequests)
    \/ AnyLogout(UserClients) /\ Served(MaxUserRequests)
    \/ AnyFollow(UserClients) /\ Served(MaxUserRequests)
    \/ AnyUnfollow(UserClients) /\ Served(MaxUserRequests)
    \/ AnyBan(UserClients) /\ Served(MaxUserRequests)
    \/ AnyUnban(UserClients) /\ Served(MaxUserRequests)
    \/ AnyMakeAdmin(UserClients) /\ Served(MaxUserRequests)

SpecUsers == Init /\ [][NextUsers]_vars

(* The user routes and the admin panel, with uploads for it to act on, from
   the empty store. *)
NextAdmin ==
    \/ AnyRegister(UserClients) /\ Served(MaxAdminRequests)
    \/ AnyLogin(UserClients) /\ Served(MaxAdminRequests)
    \/ AnyLogout(UserClients) /\ Served(MaxAdminRequests)
    \/ AnyFollow(UserClients) /\ Served(MaxAdminRequests)
    \/ AnyUnfollow(UserClients) /\ Served(MaxAdminRequests)
    \/ AnyBan(UserClients) /\ Served(MaxAdminRequests)
    \/ AnyUnban(UserClients) /\ Served(MaxAdminRequests)
    \/ AnyMakeAdmin(UserClients) /\ Served(MaxAdminRequests)
    \/ AnyUpload(UserClients) /\ Served(MaxAdminRequests)
    \/ AnyAdminDeletePost(UserClients) /\ Served(MaxAdminRequests)

SpecAdmin == Init /\ [][NextAdmin]_vars

(* The post routes, from a store in which the three users have registered
   (alice first) and have logged in, each from a client of their own; the
   fourth client has no session. *)
RegisteredUsers ==
    <<NewUser("alice", "pw", TRUE, 1), NewUser("bob", "pw", FALSE, 1),
      NewUser("Bob", "pw", FALSE, 1)>>

InitPosts ==
    /\ users = RegisteredUsers
    /\ posts = <<>>
    /\ session = [c \in Clients |->
                    CASE c = "c1" -> "alice" [] c = "c2" -> "bob" [] c = "c3" -> "Bob"
                      [] OTHER -> NoUser]
    /\ now = 1
    /\ req = "none"
    /\ response = "none"
    /\ nreq = 0
    /\ stack = Idle
    /\ inflight = NotInFlight
    /\ disk = OnDisk

PostClients == {"c1", "c2", "c4"}

NextPosts ==
    \/ Tick /\ UNCHANGED nreq
    \/ AnyUpload(PostClients) /\ Served(MaxPostRequests)
    \/ AnyLike(PostClients) /\ Served(MaxPostRequests)
    \/ AnyDeletePost(PostClients) /\ Served(MaxPostRequests)
    \/ AnyAddComment(PostClients) /\ Served(MaxPostRequests)
    \/ AnyDeleteComment(PostClients) /\ Served(MaxPostRequests)
    \/ AnyAdminDeletePost(PostClients) /\ Served(MaxPostRequests)

SpecPosts == InitPosts /\ [][NextPosts]_vars

(* The routes that write followers, following and likedBy, with the
   registrations and uploads they need, from the empty store. *)
NextSets ==
    \/ Tick /\ UNCHANGED nreq
    \/ AnyRegister(UserClients) /\ Served(MaxSetRequests)
    \/ AnyLogout(UserClients) /\ Served(MaxSetRequests)
    \/ AnyFollow(UserClients) /\ Served(MaxSetRequests)
    \/ AnyUnfollow(UserClients) /\ Served(MaxSetRequests)
    \/ AnyUpload(UserClients) /\ Served(MaxSetRequests)
    \/ AnyLike(UserClients) /\ Served(MaxSetRequests)

SpecSets == Init /\ [][NextSets]_vars

(* The page query of GET / and GET /top, as its characters: absent, not a
   number, below 1, a fraction, and pages up to one beyond the last. *)
PageQueries ==
    {<<>>, <<"a">>, <<"-", "1">>, <<"0">>, <<"1">>, <<"2">>, <<"2", ".", "7">>,
     <<"3">>, <<"4">>, <<"1", "2">>}

AnyFeed(Cs) == \E c \in Cs, q \in PageQueries : Feed(c, q)

AnyTop(Cs) == \E c \in Cs, q \in PageQueries : Top(c, q)

(* Stores written before the fields that the normalisers backfill existed:
   records that have all of them, none of them, some of them, or a joinedAt
   of 0.  alice has a session, the other client has none. *)
Restrict(r, fields) == [f \in fields |-> r[f]]

LegacyUsersOf(name) ==
    LET u == NewUser(name, "pw", FALSE, 1) IN
    {u,
     Restrict(u, {"username", "email", "passwordPlain"}),
     Restrict(u, {"username", "email", "passwordPlain", "joinedAt", "isAdmin", "banned"}),
     [u EXCEPT !.joinedAt = 0]}

LegacyPostsOf(author, t) ==
    LET p == NewPost(author, t) IN
    {p,
     Restrict(p, {"id", "title", "caption", "imageFilename", "author", "createdAt"}),
     Restrict(p, {"id", "title", "caption", "imageFilename", "author", "createdAt",
                  "likes"})}

InitLegacy ==
    /\ users \in {<<a>> : a \in LegacyUsersOf("alice")}
                \cup {<<a, b>> : a \in LegacyUsersOf("alice"), b \in LegacyUsersOf("bob")}
    /\ posts \in {<<>>} \cup {<<p>> : p \in LegacyPostsOf("alice", 1)}
                \cup {<<p, q>> : p \in LegacyPostsOf("alice", 1),
                                 q \in LegacyPostsOf("bob", 2)}
    /\ session = [c \in Clients |-> IF c = "c1" THEN "alice" ELSE NoUser]
    /\ now = MaxTime
    /\ req = "none"
    /\ response = "none"
    /\ nreq = 0
    /\ stack = Idle
    /\ inflight = NotInFlight
    /\ disk = OnDisk

NextLegacy ==
    \/ AnyLogin(UserClients) /\ Served(MaxLegacyRequests)
    \/ AnyFollow(UserClients) /\ Served(MaxLegacyRequests)
    \/ AnyFeed(UserClients) /\ Served(MaxLegacyRequests)
    \/ AnyTop(UserClients) /\ Served(MaxLegacyRequests)
    \/ AnyLike(UserClients) /\ Served(MaxLegacyRequests)

SpecLegacy == InitLegacy /\ [][NextLegacy]_vars

(* GET / and GET /top over stores of 0 to MaxItems posts: uploaded one per
   millisecond or all within one, liked by none to three of the users. *)
LikedPost(author, t, k) ==
    [NewPost(author, t) EXCEPT !.likes = k,
                               !.likedBy = SubSeq(<<"alice", "bob", "Bob">>, 1, k)]

InitPages ==
    /\ users = RegisteredUsers
    /\ \E n \in 0..MaxItems :
          \/ posts = [i \in 1..n |-> LikedPost("alice", i, i % 4)]
          \/ posts = [i \in 1..n |-> LikedPost("bob", 1, (i * i) % 3)]
          \/ posts = [i \in 1..n |-> LikedPost("Bob", (n - i) \div 2, i % 2)]
    /\ session = [c \in Clients |-> IF c = "c1" THEN "alice" ELSE NoUser]
    /\ now = MaxTime
    /\ req = "none"
    /\ response = "none"
    /\ nreq = 0
    /\ stack = Idle
    /\ inflight = NotInFlight
    /\ disk = OnDisk

NextPages ==
    \/ AnyFeed(UserClients) /\ UNCHANGED <<nreq, stack, inflight, disk>>
    \/ AnyTop(UserClients) /\ UNCHANGED <<nreq, stack, inflight, disk>>

SpecPages == InitPages /\ [][NextPages]_vars

(* Bans among users who are logged in: the admin panel with the routes that
   act for the session user. *)
BanClients == {"c1", "c2"}

NextBan ==
    \/ AnyBan(BanClients) /\ Served(MaxBanRequests)
    \/ AnyUnban(BanClients) /\ Served(MaxBanRequests)
    \/ AnyMakeAdmin(BanClients) /\ Served(MaxBanRequests)
    \/ AnyLogin(BanClients) /\ Served(MaxBanRequests)
    \/ AnyFollow(BanClients) /\ Served(MaxBanRequests)
    \/ AnyUpload(BanClients) /\ Served(MaxBanRequests)
    \/ AnyLike(BanClients) /\ Served(MaxBanRequests)
    \/ AnyAddComment(BanClients) /\ Served(MaxBanRequests)
    \/ AnyDeletePost(BanClients) /\ Served(MaxBanRequests)

SpecBan == InitPosts /\ [][NextBan]_vars

(* Every route, for a client that is logged in and one that is not, over a
   store in which users have registered. *)
AnonClients == {"c1", "c4"}

NextAnon ==
    \/ AnyRegister(AnonClients) /\ Served(MaxAnonRequests)
    \/ AnyLogin(AnonClients) /\ Served(MaxAnonRequests)
    \/ AnyLogout(AnonClients) /\ Served(MaxAnonRequests)
    \/ AnyFollow(AnonClients) /\ Served(MaxAnonRequests)
    \/ AnyUnfollow(AnonClients) /\ Served(MaxAnonRequests)
    \/ AnyBan(AnonClients) /\ Served(MaxAnonRequests)
    \/ AnyUnban(AnonClients) /\ Served(MaxAnonRequests)
    \/ AnyMakeAdmin(AnonClients) /\ Served(MaxAnonRequests)
    \/ AnyUpload(AnonClients) /\ Served(MaxAnonRequests)
    \/ AnyLike(AnonClients) /\ Served(MaxAnonRequests)
    \/ AnyDeletePost(AnonClients) /\ Served(MaxAnonRequests)
    \/ AnyAddComment(AnonClients) /\ Served(MaxAnonRequests)
    \/ AnyDeleteComment(AnonClients) /\ Served(MaxAnonRequests)
    \/ AnyAdminDeletePost(AnonClients) /\ Served(MaxAnonRequests)
    \/ AnyFeed(AnonClients) /\ Served(MaxAnonRequests)
    \/ AnyTop(AnonClients) /\ Served(MaxAnonRequests)

SpecAnon == InitPosts /\ [][NextAnon]_vars

(* ====================== FILES THAT ARE NOT THERE ======================= *)
(* The routes with the data files emptied or removed under the running
   server.  fs.readFileSync throws ENOENT for a file that is not there; no
   handler catches it, and express answers 500. *)
Files == {"users", "posts"}

(* Something outside the server removes, or truncates, a data file. *)
Remove(file) ==
    /\ disk[file] # "missing"
    /\ disk' = [disk EXCEPT ![file] = "missing"]
    /\ users' = IF file = "users" THEN <<>> ELSE users
    /\ posts' = IF file = "posts" THEN <<>> ELSE posts
    /\ UNCHANGED <<session, now, req, response, nreq, stack, inflight>>

Truncate(file) ==
    /\ disk[file] = "json"
    /\ disk' = [disk EXCEPT ![file] = "empty"]
    /\ users' = IF file = "users" THEN <<>> ELSE users
    /\ posts' = IF file = "posts" THEN <<>> ELSE posts
    /\ UNCHANGED <<session, now, req, response, nreq, stack, inflight>>

(* The server is started again: the files that are not there are created
   holding '[]', and the sessions, which are kept in memory, are gone. *)
Startup ==
    /\ disk' = [f \in Files |-> IF disk[f] = "missing" THEN "json" ELSE disk[f]]
    /\ session' = [c \in Clients |-> NoUser]
    /\ req' = "none"
    /\ response' = "none"
    /\ UNCHANGED <<users, posts, now, nreq, stack, inflight>>

(* The request of client c reads the file: the middleware reads the users for
   a client with a session, and the handler reads what it loads. *)
Reads(c, file, loads) ==
    \/ file = "users" /\ session[c] # NoUser
    \/ file \in loads

(* readFileSync throws in the middleware or in the handler. *)
Throws(c, loads) == \E f \in Files : Reads(c, f, loads) /\ disk[f] = "missing"

Thrown(route) ==
    /\ req' = route
    /\ response' = "500 ENOENT"
    /\ UNCHANGED <<users, posts, session, now, disk>>

StoreLogin(c, username, password) ==
    IF Throws(c, {"users"}) THEN Thrown("login")
    ELSE Login(c, username, password) /\ UNCHANGED disk

StoreLike(c, id) ==
    IF Throws(c, IF session[c] # NoUser THEN {"posts"} ELSE {}) THEN Thrown("like")
    ELSE /\ Like(c, id)
         /\ disk' = IF posts' # posts THEN [disk EXCEPT !.posts = "json"] ELSE disk

StoreUpload(c, hasFile) ==
    IF Throws(c, IF session[c] # NoUser /\ hasFile THEN {"posts"} ELSE {})
    THEN Thrown("upload")
    ELSE /\ Upload(c, hasFile)
         /\ disk' = IF posts' # posts THEN [disk EXCEPT !.posts = "json"] ELSE disk

Counted(bound) ==
    /\ nreq < bound
    /\ nreq' = nreq + 1
    /\ UNCHANGED <<stack, inflight>>

InitStore ==
    /\ users = RegisteredUsers
    /\ posts = <<NewPost("alice", 1)>>
    /\ session = [c \in Clients |-> IF c = "c1" THEN "alice" ELSE NoUser]
    /\ now = MaxTime
    /\ req = "none"
    /\ response = "none"
    /\ nreq = 0
    /\ stack = Idle
    /\ inflight = NotInFlight
    /\ disk = OnDisk

NextStore ==
    \/ \E f \in Files : Remove(f)
    \/ \E f \in Files : Truncate(f)
    \/ Startup
    \/ (\E c \in UserClients, u \in Usernames, p \in Guesses : StoreLogin(c, u, p))
          /\ Counted(MaxStoreRequests)
    \/ (\E c \in UserClients, id \in PostIds : StoreLike(c, id))
          /\ Counted(MaxStoreRequests)
    \/ (\E c \in UserClients, f \in BOOLEAN : StoreUpload(c, f))
          /\ Counted(MaxStoreRequests)

SpecStore == InitStore /\ [][NextStore]_vars

(* ================= THE LOAD -> MUTATE -> SAVE CYCLE =================== *)
(* The same handlers at the grain of the file-system calls.  Requests arrive
   concurrently; the event loop runs one callback at a time, and a callback
   that is on the stack runs to its end before another one starts. *)

(* Faulty variant: the file is read with a callback (fs.readFile), so the handler
   gives the stack back between its load and its save. *)
readFileAsync == FALSE

(* fs.readFileSync: the handler keeps the stack while it reads. *)
readFileSync == TRUE

Collection(op) == IF op = "follow" THEN "users" ELSE "posts"

File(op) == IF Collection(op) = "users" THEN users ELSE posts

(* What the handler of request q makes of the collection it loaded. *)
Mutate(q, loaded) ==
    LET user == session[q.client] IN
    CASE q.op = "like" ->
           LET post == findPost(loaded, q.id) IN
           IF post = 0 THEN loaded
           ELSE [loaded EXCEPT ![post] = toggleLike(@, user)]
      [] q.op = "upload" -> Append(loaded, NewPost(user, now))
      [] q.op = "follow" ->
           LET me     == findUser(loaded, user)
               target == findUser(loaded, q.name)
           IN  IF me = 0 \/ target = 0 THEN loaded
               ELSE addFollower(addFollowing(loaded, me, q.name), target, user)
      [] OTHER -> loaded

(* The handler returns before its save (404, or a user that is not there). *)
ReturnsEarly(q, loaded) ==
    \/ q.op = "like" /\ findPost(loaded, q.id) = 0
    \/ q.op = "follow" /\ (findUser(loaded, session[q.client]) = 0
                            \/ findUser(loaded, q.name) = 0)

RMWClients == {"c1", "c2"}

(* A request reaches the server; its body and session are still being read. *)
Arrive(r, op, c, id, name) ==
    /\ inflight[r].pc = "none"
    /\ inflight' = [inflight EXCEPT ![r] =
                       [pc |-> "pending", op |-> op, client |-> c, id |-> id,
                        name |-> name, local |-> <<>>]]
    /\ UNCHANGED <<users, posts, session, now, req, response, nreq, stack, disk>>

(* The handler starts, and reads and normalises its collection. *)
Load(r) ==
    LET q == inflight[r] IN
    /\ q.pc = "pending"
    /\ stack = Idle
    /\ q.op = "upload" => Len(posts) < MaxPosts
    /\ inflight' = [inflight EXCEPT ![r].pc = "loaded",
                                    ![r].local = IF Collection(q.op) = "users"
                                                 THEN normaliseUsers(loadUsers, now)
                                                 ELSE normalisePosts(loadPosts)]
    /\ stack' = IF readFileSync THEN {r} ELSE Idle
    /\ UNCHANGED <<users, posts, session, now, req, response, nreq, disk>>

(* The handler mutates what it loaded, saves it and answers. *)
Save(r) ==
    LET q == inflight[r] IN
    /\ q.pc = "loaded"
    /\ stack \in {{r}, Idle}
    /\ IF ReturnsEarly(q, q.local)
       THEN /\ response' = IF q.op = "like" THEN "404 post not found" ELSE "302 /"
            /\ UNCHANGED <<users, posts>>
       ELSE /\ response' = IF q.op = "follow" THEN "302 /user" ELSE "302 /"
            /\ IF Collection(q.op) = "users"
               THEN users' = Mutate(q, q.local) /\ UNCHANGED posts
               ELSE posts' = Mutate(q, q.local) /\ UNCHANGED users
    /\ req' = q.op
    /\ inflight' = [inflight EXCEPT ![r].pc = "done"]
    /\ stack' = Idle
    /\ UNCHANGED <<session, now, nreq, disk>>

InitRMW ==
    /\ users = RegisteredUsers
    /\ posts = <<NewPost("alice", 1)>>
    /\ session = [c \in Clients |->
                    CASE c = "c1" -> "alice" [] c = "c2" -> "bob" [] c = "c3" -> "Bob"
                      [] OTHER -> NoUser]
    /\ now = 2
    /\ req = "none"
    /\ response = "none"
    /\ nreq = 0
    /\ stack = Idle
    /\ inflight = NotInFlight
    /\ disk = OnDisk

NextRMW ==
    \/ \E r \in Requests, c \in RMWClients, id \in PostIds : Arrive(r, "like", c, id, "")
    \/ \E r \in Requests, c \in RMWClients : Arrive(r, "upload", c, 0, "")
    \/ \E r \in Requests, c \in RMWClients :
          \E u \in Usernames \ {session[c]} : Arrive(r, "follow", c, 0, u)
    \/ \E r \in Requests : Load(r)
    \/ \E r \in Requests : Save(r)

SpecRMW == InitRMW /\ [][NextRMW]_vars

(* ============================== PROPERTIES ============================= *)
Registered == {users[i].username : i \in DOMAIN users}

UserOf(name) == users[findUser(users, name)]

FollowersOf(name) ==
    IF name \in Registered
    THEN {UserOf(name).followers[k] : k \in DOMAIN UserOf(name).followers}
    ELSE {}

FollowingOf(name) ==
    IF name \in Registered
    THEN {UserOf(name).following[k] : k \in DOMAIN UserOf(name).following}
    ELSE {}

(* C1: in every reachable state, for all users A and B, A is in B.followers
   exactly when B is in A.following. *)
C1_FollowSymmetry ==
    \A a \in Usernames, b \in Usernames :
        (a \in FollowersOf(b)) <=> (b \in FollowingOf(a))

(* A follow has been recorded and, later, another one undone. *)
C1_Witness ==
    /\ req = "unfollow"
    /\ response = "302 /user"
    /\ \E a \in Usernames, b \in Usernames : a \in FollowersOf(b)

(* C7: a login with the right credential for a banned user is answered
   "banned" and leaves the session alone; a login with a wrong username or
   credential is answered "invalid", banned or not; the session changes only
   when a non-banned user's username and credential both match, and then names
   that user. *)
C7_BanBlocksLogin ==
    [][\A c \in Clients, u \in Usernames, p \in Guesses :
          Login(c, u, p) =>
            LET match  == u \in Registered /\ UserOf(u).passwordPlain = p
                banned == u \in Registered /\ UserOf(u).banned
            IN  /\ (match /\ banned) =>
                      (response' = "403 banned" /\ session' = session)
                /\ ~match =>
                      (response' = "401 invalid username or password"
                       /\ session' = session)
                /\ (match /\ ~banned) =>
                      (response' = "302 /" /\ session' = [session EXCEPT ![c] = u])]_vars

(* A banned user has just been refused with the right credential. *)
C7_Witness ==
    /\ req = "login"
    /\ response = "403 banned"
    /\ \E i \in DOMAIN users : users[i].banned

(* C8: the record a registration appends is an admin exactly when the store
   was empty before it; a successful registration appends one record. *)
C8_FirstUserAdmin ==
    [][/\ (req' = "register" /\ response' = "302 /") => Len(users') = Len(users) + 1
       /\ Len(users') = Len(users) + 1 =>
             (users'[Len(users')].isAdmin <=> users = <<>>)]_vars

(* Two registrations have succeeded: the first is an admin, the second not. *)
C8_Witness ==
    /\ req = "register"
    /\ response = "302 /"
    /\ Len(users) >= 2
    /\ users[1].isAdmin
    /\ ~users[2].isAdmin

(* C10: no two records carry the same username; a complete registration
   form naming a username already present is answered "already taken" and
   changes neither the users nor the session, and one naming a username that
   is not present (one differing only in case is not) is not answered so. *)
C10_UsernameUnique ==
    /\ [](\A i \in DOMAIN users, j \in DOMAIN users :
            users[i].username = users[j].username => i = j)
    /\ [][\A c \in Clients, f \in RegisterForms :
            (/\ Register(c, f.username, f.password, f.password2)
             /\ f.password # "" /\ f.password = f.password2
             /\ f.username \in Registered)
            => (/\ response' = "400 username already taken"
                /\ users' = users
                /\ session' = session)]_vars
    /\ [][\A c \in Clients, f \in RegisterForms :
            (/\ Register(c, f.username, f.password, f.password2)
             /\ f.username \notin Registered)
            => response' # "400 username already taken"]_vars

(* A taken username has been refused while a username differing only in case
   is registered beside it. *)
C10_Witness ==
    /\ req = "register"
    /\ response = "400 username already taken"
    /\ {"bob", "Bob"} \subseteq Registered

(* C2: every post's likes counter equals the length of its likedBy array
   (and so is never negative). *)
C2_LikesCount ==
    \A i \in DOMAIN posts :
        posts[i].likes = Len(posts[i].likedBy) /\ posts[i].likes >= 0

(* Two users have liked the same post. *)
C2_Witness ==
    /\ req = "like"
    /\ response = "302 /"
    /\ \E i \in DOMAIN posts : posts[i].likes = 2

Gone(p) == \A j \in DOMAIN posts' : posts'[j] # p

(* C4: a post that POST /posts/:id/delete removes from the collection was
   written by the requester. *)
C4_OnlyAuthorDeletes ==
    [][\A c \in Clients, id \in PostIds :
          DeletePost(c, id) =>
            \A i \in DOMAIN posts : Gone(posts[i]) => posts[i].author = session[c]]_vars

(* C5: for a post P with the requested id, a requester other than P's author
   is answered 403 and the collection is unchanged, while P's author is
   answered with the redirect and P is gone; an id no post carries is answered
   404 and the collection is unchanged. *)
C5_OwnershipOutcome ==
    [][\A c \in Clients, id \in PostIds :
          (DeletePost(c, id) /\ session[c] # NoUser) =>
            /\ \A i \in DOMAIN posts :
                 posts[i].id = id =>
                   IF posts[i].author # session[c]
                   THEN response' = "403 only your own joints" /\ posts' = posts
                   ELSE response' = "302 /" /\ Gone(posts[i])
            /\ (\A i \in DOMAIN posts : posts[i].id # id) =>
                 (response' = "404 post not found" /\ posts' = posts)]_vars

(* C6: for the post P that the request names and a comment C of P with the
   requested id, the comment's author and P's author each remove C and
   nothing else; anyone else is answered 403 and the collection is
   unchanged. *)
C6_CommentDeletion ==
    [][\A c \in Clients, id \in PostIds, cid \in PostIds :
          (DeleteComment(c, id, cid) /\ session[c] # NoUser /\ findPost(posts, id) # 0) =>
            LET pi == findPost(posts, id)
                P  == posts[pi]
            IN  \A k \in DOMAIN P.comments :
                  P.comments[k].id = cid =>
                    IF P.comments[k].author = session[c] \/ P.author = session[c]
                    THEN /\ response' = "302 /"
                         /\ posts' = [posts EXCEPT ![pi].comments = Splice1(@, k)]
                    ELSE /\ response' = "403 cannot delete this comment"
                         /\ posts' = posts]_vars

IsAdminSession(c) == session[c] \in Registered /\ UserOf(session[c]).isAdmin

Rejected ==
    /\ users' = users
    /\ posts' = posts
    /\ response' \in {"302 /login", "403 admins only"}

(* C9: an existing record's isAdmin goes from false to true only in a
   make-admin request of a client whose session user is an admin at that
   moment; ban, unban, make-admin and admin-delete requests of a client that
   is not logged in or whose user is not an admin are refused and change
   neither collection. *)
C9_AdminRequired ==
    [][/\ \A i \in DOMAIN users :
            (~users[i].isAdmin /\ users'[i].isAdmin) =>
              \E c \in Clients : MakeAdmin(c, users[i].username) /\ IsAdminSession(c)
       /\ \A c \in Clients :
            ~IsAdminSession(c) =>
              /\ \A u \in Usernames :
                   (Ban(c, u) \/ Unban(c, u) \/ MakeAdmin(c, u)) => Rejected
              /\ \A id \in PostIds : AdminDeletePost(c, id) => Rejected]_vars

(* A registered user who is not an admin has been refused the deletion of
   a post that is there. *)
C9_Witness ==
    /\ req = "adminDelete"
    /\ response = "403 admins only"
    /\ posts # <<>>

(* C3: while a request is between its load and its save, the file it is
   about to overwrite still holds what it loaded (no other save came in
   between), and so every save writes the request's update of the persisted
   collection as it is at that moment: no update is lost. *)
C3_WritesExclusive ==
    /\ [](\A r \in Requests :
            inflight[r].pc = "loaded" => File(inflight[r].op) = inflight[r].local)
    /\ [][\A r \in Requests :
            (Save(r) /\ ~ReturnsEarly(inflight[r], inflight[r].local)) =>
              IF Collection(inflight[r].op) = "users"
              THEN users' = Mutate(inflight[r], users)
              ELSE posts' = Mutate(inflight[r], posts)]_vars

(* Two requests on the posts file were in flight together and both have
   saved: two users like the same post. *)
C3_Witness ==
    /\ \A r \in Requests : inflight[r].pc = "done" /\ inflight[r].op = "like"
    /\ \E i \in DOMAIN posts : posts[i].likes = 2

Members(s) == {s[k] : k \in DOMAIN s}

(* The like request of client c for post id, as the handler sees it. *)
LikeRequest(c, id) ==
    [pc |-> "pending", op |-> "like", client |-> c, id |-> id, name |-> "",
     local |-> <<>>]

(* C11: for every post of the collection and every logged-in user, two
   consecutive like requests of that user for the post's id, with nothing in
   between, leave every post with the likes count and the likedBy membership
   it had before the first; each like request writes exactly what the toggle
   makes of the normalised collection. *)
C11_TogglePairing ==
    /\ [](\A c \in Clients, i \in DOMAIN posts :
            session[c] # NoUser =>
              LET q     == LikeRequest(c, posts[i].id)
                  ps    == normalisePosts(loadPosts)
                  once  == Mutate(q, ps)
                  twice == Mutate(q, normalisePosts(once))
              IN  /\ DOMAIN twice = DOMAIN ps
                  /\ \A j \in DOMAIN ps :
                       /\ twice[j].likes = ps[j].likes
                       /\ Members(twice[j].likedBy) = Members(ps[j].likedBy)
                  /\ once # ps)
    /\ [][\A c \in Clients, id \in PostIds :
            (Like(c, id) /\ session[c] # NoUser /\ findPost(posts, id) # 0)
            => posts' = Mutate(LikeRequest(c, id), normalisePosts(posts))]_vars

(* One upload and then two like requests of one user: the second has undone
   the first. *)
C11_Witness ==
    /\ req = "like"
    /\ response = "302 /"
    /\ nreq = 3
    /\ Len(posts) = 1
    /\ posts[1].likes = 0
    /\ posts[1].likedBy = <<>>

FollowersIn(us, name) ==
    IF findUser(us, name) = 0 THEN {} ELSE Members(us[findUser(us, name)].followers)

FollowingIn(us, name) ==
    IF findUser(us, name) = 0 THEN {} ELSE Members(us[findUser(us, name)].following)

(* C12: for a logged-in user A and an existing user B other than A, a follow
   request leaves B in A.following and A in B.followers, and an unfollow
   request leaves neither; a follow or unfollow request naming A itself, or a
   username no record carries, leaves the users collection unchanged. *)
C12_FollowPostconditions ==
    [][\A c \in Clients, b \in Usernames :
          LET a == session[c] IN
          a \in Registered =>
            /\ (Follow(c, b) /\ a # b /\ b \in Registered) =>
                 (b \in FollowingIn(users', a) /\ a \in FollowersIn(users', b))
            /\ (Unfollow(c, b) /\ a # b /\ b \in Registered) =>
                 (b \notin FollowingIn(users', a) /\ a \notin FollowersIn(users', b))
            /\ ((Follow(c, b) \/ Unfollow(c, b)) /\ (a = b \/ b \notin Registered)) =>
                 users' = users]_vars

(* alice and bob followed each other and alice has then unfollowed bob: bob
   still follows alice. *)
C12_Witness ==
    /\ req = "unfollow"
    /\ response = "302 /user"
    /\ nreq = 5
    /\ session["c1"] = "alice"
    /\ session["c2"] = "bob"
    /\ FollowersOf("alice") = {"bob"}
    /\ FollowingOf("alice") = {}

(* C13: no two posts of the collection carry the same id, two uploads served
   within the same millisecond included. *)
C13_PostIdsUnique ==
    \A i \in DOMAIN posts, j \in DOMAIN posts : posts[i].id = posts[j].id => i = j

NoDuplicates(s) == \A i \in DOMAIN s, j \in DOMAIN s : s[i] = s[j] => i = j

(* C14: from the empty store, no followers, following or likedBy array ever
   holds a username twice; a follow request for a user already followed
   leaves the users collection as it is, and a like request of a user who is
   already in likedBy shortens the array instead of growing it. *)
C14_SetSemantics ==
    /\ [](/\ \A i \in DOMAIN users :
               NoDuplicates(users[i].followers) /\ NoDuplicates(users[i].following)
          /\ \A i \in DOMAIN posts : NoDuplicates(posts[i].likedBy))
    /\ [][\A c \in Clients :
            /\ \A b \in Usernames :
                 (Follow(c, b) /\ b \in FollowingOf(session[c])) => users' = users
            /\ \A id \in PostIds :
                 LET i == findPost(posts, id) IN
                 (Like(c, id) /\ session[c] # NoUser /\ i # 0
                    /\ session[c] \in Members(posts[i].likedBy))
                 => Len(posts'[i].likedBy) = Len(posts[i].likedBy) - 1]_vars

(* A registration, an upload and two like requests of the author: the array
   is empty again, the name was never in it twice. *)
C14_Witness ==
    /\ req = "like"
    /\ response = "302 /"
    /\ nreq = 4
    /\ Len(users) = 1
    /\ Len(posts) = 1
    /\ posts[1].likedBy = <<>>

postsAmended(ps) == normalisePosts(ps) # ps

(* C15: a request that loads a collection and does nothing else to it (a
   login for the users; GET / and GET /top for the posts, and for the users
   when the client has a session) leaves the store holding the normalised
   collection when the normaliser amended a record, and leaves the store as
   it was when it amended none. *)
C15_NormalisePersists ==
    [][\A c \in Clients :
          /\ (\E u \in Usernames, p \in Guesses : Login(c, u, p)) =>
               users' = IF usersChanged(users) THEN normaliseUsers(users, now) ELSE users
          /\ (\E q \in PageQueries : Feed(c, q) \/ Top(c, q)) =>
               /\ session[c] # NoUser =>
                    users' = IF usersChanged(users) THEN normaliseUsers(users, now)
                             ELSE users
               /\ posts' = IF postsAmended(posts) THEN normalisePosts(posts) ELSE posts]_vars

Times == 1..MaxTime

(* C16: for every users and posts collection, records with missing fields or
   a joinedAt of 0 included, normalising the normalised collection again (at
   the same or at another time) gives the same collection, field for field,
   and finds nothing to amend, so that nothing is persisted. *)
C16_NormaliseIdempotent ==
    \A t1 \in Times, t2 \in Times :
        LET nu == normaliseUsers(users, t1)
            np == normalisePosts(posts)
        IN  /\ normaliseUsers(nu, t2) = nu
            /\ ~usersChanged(nu)
            /\ normalisePosts(np) = np
            /\ ~postsAmended(np)

(* A login has normalised a legacy users file: a record got its joinedAt at
   the time of the request, and the file now has nothing left to amend. *)
C16_Witness ==
    /\ req = "login"
    /\ ~usersChanged(users)
    /\ \E i \in DOMAIN users : users[i].joinedAt = MaxTime

(* The page number each query asks for. *)
wanted(q) ==
    CASE q = <<"2">> -> 2
      [] q = <<"2", ".", "7">> -> 2
      [] q = <<"3">> -> 3
      [] q = <<"4">> -> 4
      [] q = <<"1", "2">> -> 12
      [] OTHER -> 1

(* Newest first; in the top view most liked first, then newest first. *)
inOrder(a, b, view) ==
    IF view = "top" /\ a.likes # b.likes THEN a.likes > b.likes
    ELSE a.createdAt >= b.createdAt

(* C17: for a collection of N posts and the page size S of the routes,
   totalPages is the least number t >= 1 with t * S >= N; the page
   rendered is the page asked for, brought up to 1 or down to totalPages; the
   posts rendered are the positions (page-1)*S (inclusive) to page*S
   (exclusive) of the sorted collection, as many of them as exist, in
   order; the page is not empty when N > 0; the stored collection is not
   changed. *)
C17_PaginationBounds ==
    [][\A c \in Clients, q \in PageQueries, view \in {"index", "top"} :
          (IF view = "index" THEN Feed(c, q) ELSE Top(c, q)) =>
            LET N      == Len(posts)
                S      == POSTS_PER_PAGE
                r      == response'
                first  == (r.page - 1) * S
                sorted == sort(posts, view)
            IN  /\ r.totalPages >= 1
                /\ r.totalPages * S >= N
                /\ r.totalPages > 1 => (r.totalPages - 1) * S < N
                /\ r.page = IF wanted(q) > r.totalPages THEN r.totalPages ELSE wanted(q)
                /\ r.page >= 1 /\ r.page <= r.totalPages
                /\ \A pos \in 1..N :
                     (pos > first /\ pos <= first + S) <=> (pos - first) \in DOMAIN r.posts
                /\ r.posts = SubSeq(sorted, first + 1, first + Len(r.posts))
                /\ \A k \in DOMAIN r.posts :
                     k > 1 => inOrder(r.posts[k - 1], r.posts[k], view)
                /\ Len(r.posts) <= S
                /\ N > 0 => r.posts # <<>>
                /\ N = 0 => r.posts = <<>>
                /\ posts' = posts]_vars

(* The last of three pages has been rendered: one post of eleven. *)
C17_Witness ==
    /\ req = "top"
    /\ Len(posts) = 11
    /\ response.page = 3
    /\ response.totalPages = 3
    /\ Len(response.posts) = 1

(* C18: a request that loads a collection whose file is empty, or is not
   there when the request is served, is answered as it is for an empty
   collection, and no error is raised: a login is refused as invalid, a like
   request of a logged-in client is answered "post not found". *)
C18_LoadNeverFails ==
    [][\A c \in Clients :
          /\ \A u \in Usernames, p \in Guesses :
               (StoreLogin(c, u, p) /\ disk.users \in {"empty", "missing"}) =>
                 response' = "401 invalid username or password"
          /\ \A id \in PostIds :
               (StoreLike(c, id) /\ session[c] # NoUser /\ disk.users = "json"
                  /\ disk.posts \in {"empty", "missing"}) =>
                 response' = "404 post not found"]_vars

IsBannedSession(c) == session[c] \in Registered /\ UserOf(session[c]).banned

(* C19: a ban, an unban or a promotion changes no session; a client whose
   session user is banned still has its like, comment, upload, follow and
   delete requests applied to the store exactly as for any other user, and
   still passes the admin check when its user is an admin; only a login is
   refused because of the flag. *)
C19_BanOnlyAtLogin ==
    [][\A c \in Clients :
          LET u == session[c] IN
          /\ \A b \in Usernames :
               (Ban(c, b) \/ Unban(c, b) \/ MakeAdmin(c, b)) => session' = session
          /\ IsBannedSession(c) =>
               /\ \A id \in PostIds :
                    LET i == findPost(posts, id) IN
                    /\ (Like(c, id) /\ i # 0) =>
                         /\ response' = "302 /"
                         /\ posts' = [posts EXCEPT ![i] = toggleLike(@, u)]
                    /\ (AddComment(c, id, "hi") /\ i # 0) =>
                         /\ response' = "302 /"
                         /\ posts' = [posts EXCEPT ![i].comments =
                                         Append(@, NewComment(u, "hi", now))]
                    /\ (DeletePost(c, id) /\ i # 0 /\ posts[i].author = u) =>
                         /\ response' = "302 /"
                         /\ \A j \in DOMAIN posts' : posts'[j].id # id
               /\ Upload(c, TRUE) =>
                    /\ response' = "302 /"
                    /\ posts' = Append(posts, NewPost(u, now))
               /\ \A b \in Registered \ {u} :
                    Follow(c, b) =>
                      /\ response' = "302 /user"
                      /\ b \in FollowingIn(users', u)
                      /\ u \in FollowersIn(users', b)
               /\ UserOf(u).isAdmin =>
                    /\ requireAdmin(c) = "next"
                    /\ \A b \in Registered :
                         Unban(c, b) =>
                           /\ response' = "302 /admin"
                           /\ ~users'[findUser(users, b)].banned
          /\ \A n \in Usernames, p \in Guesses :
               (Login(c, n, p) /\ n \in Registered /\ UserOf(n).banned) =>
                 session' = session]_vars

(* bob was banned while logged in, and his like of a post has then been
   recorded. *)
C19_Witness ==
    /\ req = "like"
    /\ response = "302 /"
    /\ nreq = 3
    /\ session["c2"] = "bob"
    /\ UserOf("bob").banned
    /\ Len(posts) = 1
    /\ posts[1].likedBy = <<"bob">>

(* A request of client c to a route other than register. *)
RequestOtherThanRegister(c) ==
    \/ AnyLogin({c}) \/ AnyLogout({c}) \/ AnyFollow({c}) \/ AnyUnfollow({c})
    \/ AnyBan({c}) \/ AnyUnban({c}) \/ AnyMakeAdmin({c})
    \/ AnyUpload({c}) \/ AnyLike({c}) \/ AnyDeletePost({c}) \/ AnyAddComment({c})
    \/ AnyDeleteComment({c}) \/ AnyAdminDeletePost({c})
    \/ AnyFeed({c}) \/ AnyTop({c})

(* C20: over a normalised store, a request of a client without a session
   leaves the users and the posts as they are, except a registration that
   succeeds, which appends one record to the users and leaves the rest and the
   posts as they are; a login or a logout, of any client, changes neither
   collection. *)
C20_NoAnonymousMutation ==
    [][\A c \in Clients :
          /\ (session[c] = NoUser /\ RequestOtherThanRegister(c)) =>
               (users' = users /\ posts' = posts)
          /\ (session[c] = NoUser /\ AnyRegister({c})) =>
               /\ posts' = posts
               /\ IF response' = "302 /"
                  THEN Len(users') = Len(users) + 1
                       /\ SubSeq(users', 1, Len(users)) = users
                  ELSE users' = users
          /\ (AnyLogin({c}) \/ AnyLogout({c})) => (users' = users /\ posts' = posts)]_vars

(* A client without a session has been refused an upload while the store
   holds a post. *)
C20_Witness ==
    /\ req = "upload"
    /\ response = "401 must be logged in"
    /\ session["c4"] = NoUser
    /\ posts # <<>>

====
